---- MODULE Spec2Model ----
(***************************************************************************)
(* Window (graphics/window.py): the view/controller of the voxel world.    *)
(* The event handlers and the per-tick update are the actions; the         *)
(* trigonometry of get_motion_vector is computed exactly, over angles that *)
(* are directions of integer vectors and numbers of the form               *)
(* num * sqrt(rad) / den.                                                  *)
(***************************************************************************)
EXTENDS Integers, Sequences, FiniteSets, TLC

(* ------------------------------------------------------------------ *)
(* Bounds of the model                                                  *)
(* ------------------------------------------------------------------ *)
\* callbacks delivered in one run
MaxEvents == 5
\* largest absolute value of a MotionIntent component drawn in SpecMotion
MaxIntent == 2
\* largest number of eighths of a turn of the yaw drawn in SpecMotion
MaxEighths == 9

(* ------------------------------------------------------------------ *)
(* Exact arithmetic                                                     *)
(* ------------------------------------------------------------------ *)
Abs(n) == IF n < 0 THEN -n ELSE n

RECURSIVE Gcd(_, _)
Gcd(a, b) == IF b = 0 THEN Abs(a) ELSE Gcd(Abs(b), Abs(a) % Abs(b))

\* Python's // on integers: floor division, d > 0
FloorDiv(n, d) == n \div d

\* ceiling division, d > 0
CeilDiv(n, d) == -((-n) \div d)

\* a rational <<num, den>> in lowest terms, den > 0
Rat(n, d) ==
    LET s == IF d < 0 THEN -1 ELSE 1
        g == Gcd(n, d)
    IN  IF n = 0 THEN <<0, 1>> ELSE <<(s * n) \div g, (s * d) \div g>>

RatMul(p, q) == Rat(p[1] * q[1], p[2] * q[2])

RatAdd(p, q) == Rat(p[1] * q[2] + q[1] * p[2], p[2] * q[2])

\* the largest s with s*s dividing n, n > 0
RECURSIVE SquarePart(_, _)
SquarePart(n, s) ==
    IF s <= 1 THEN 1
    ELSE IF n % (s * s) = 0 THEN s ELSE SquarePart(n, s - 1)

\* the number num * sqrt(rad) / den, rad squarefree, in lowest terms
Surd(num, den, rad) ==
    IF num = 0 THEN [num |-> 0, den |-> 1, rad |-> 1]
    ELSE LET q == Rat(num, den)
         IN  [num |-> q[1], den |-> q[2], rad |-> rad]

\* the number a / sqrt(n), n > 0
OverSqrt(a, n) ==
    LET s == SquarePart(n, n)
        r == n \div (s * s)
    IN  Surd(a, s * r, r)

SurdOfInt(k) == Surd(k, 1, 1)

SurdNeg(x) == Surd(-x.num, x.den, x.rad)

\* the square of a surd, a rational
SurdSq(x) == Rat(x.num * x.num * x.rad, x.den * x.den)

\* a surd times a rational
SurdScale(x, q) == Surd(x.num * q[1], x.den * q[2], x.rad)

\* A real coordinate: a finite sum of surds with distinct radicands, kept
\* as the set of its nonzero terms.
AlgZero == {}

AlgAdd(a, x) ==
    IF x.num = 0 THEN a
    ELSE IF \E t \in a : t.rad = x.rad
         THEN LET t == CHOOSE u \in a : u.rad = x.rad
                  q == RatAdd(<<t.num, t.den>>, <<x.num, x.den>>)
              IN  IF q[1] = 0 THEN a \ {t}
                  ELSE (a \ {t}) \cup {Surd(q[1], q[2], x.rad)}
         ELSE a \cup {x}

\* the integer square root, by bisection: the k in lo..hi with k*k <= n < (k+1)*(k+1)
RECURSIVE ISqrtIn(_, _, _)
ISqrtIn(n, lo, hi) ==
    IF lo >= hi THEN lo
    ELSE LET mid == (lo + hi + 1) \div 2
         IN  IF mid * mid <= n THEN ISqrtIn(n, mid, hi) ELSE ISqrtIn(n, lo, mid - 1)

\* the scale of the enclosures below: values are enclosed to 1/Scale
Scale == 1000

\* integers lo <= Scale * x <= hi for a surd x
SurdEnclosure(x) ==
    LET n   == x.rad * Scale * Scale
        s   == ISqrtIn(n, 0, Scale * (ISqrtIn(x.rad, 0, x.rad) + 1))
        sLo == s
        sHi == IF s * s = n THEN s ELSE s + 1
    IN  IF x.num >= 0
        THEN <<FloorDiv(x.num * sLo, x.den), CeilDiv(x.num * sHi, x.den)>>
        ELSE <<FloorDiv(x.num * sHi, x.den), CeilDiv(x.num * sLo, x.den)>>

RECURSIVE AlgEnclosure(_)
AlgEnclosure(a) ==
    IF a = {} THEN <<0, 0>>
    ELSE LET t == CHOOSE u \in a : TRUE
             e == SurdEnclosure(t)
             r == AlgEnclosure(a \ {t})
         IN  <<e[1] + r[1], e[2] + r[2]>>

\* floor(a / size) for a coordinate a and an integer size > 0; the enclosure
\* decides it whenever both of its ends fall in the same cell
AlgFloorDiv(a, size) == FloorDiv(AlgEnclosure(a)[1], Scale * size)

AlgFloorDecided(a, size) ==
    FloorDiv(AlgEnclosure(a)[1], Scale * size) = FloorDiv(AlgEnclosure(a)[2], Scale * size)

(* ------------------------------------------------------------------ *)
(* Angles                                                               *)
(* ------------------------------------------------------------------ *)
\* An angle is kept as the direction of an integer vector <<x, y>> with
\* gcd(x, y) = 1: the angle from the +x axis to the vector.

Direction(x, y) ==
    LET g == Gcd(x, y) IN IF g = 0 THEN <<1, 0>> ELSE <<x \div g, y \div g>>

\* math.atan2(y, x); atan2(0, 0) is 0
atan2(y, x) == Direction(x, y)

\* the angle a turned by one eighth of a turn, clockwise
TurnBack45(a) == Direction(a[1] + a[2], a[2] - a[1])

RECURSIVE TurnBack(_, _)
TurnBack(a, k) == IF k = 0 THEN a ELSE TurnBack(TurnBack45(a), k - 1)

\* math.cos and math.sin of an angle
cos(a) == OverSqrt(a[1], a[1] * a[1] + a[2] * a[2])

sin(a) == OverSqrt(a[2], a[1] * a[1] + a[2] * a[2])

\* rationals: comparison and the integers among them
RatOfInt(k) == <<k, 1>>

RatLess(p, q) == p[1] * q[2] < q[1] * p[2]

\* Python's min and max of two numbers
min(p, q) == IF RatLess(q, p) THEN q ELSE p

max(p, q) == IF RatLess(p, q) THEN q ELSE p

\* math.radians of a yaw that is a whole number of eighths of a turn: the
\* number of eighths, taken in 0..7 (cos and sin have period 8 eighths)
radians(deg) == (deg[1] \div (45 * deg[2])) % 8

IsEighths(deg) == deg[1] % (45 * deg[2]) = 0

(* ------------------------------------------------------------------ *)
(* Configuration and collaborators (config.py, controls.py, helpers.py, *)
(* model.py)                                                            *)
(* ------------------------------------------------------------------ *)
TICKS == 60

CHUNK_SIZE == 16

WALKING_SPEED == 5

FLYING_SPEED == 15

\* MOVE: key symbol -> (index into model.motion, amount)
MoveKeys == {"FORWARD", "BACK", "LEFT", "RIGHT", "UP", "DOWN"}

MOVE ==
    [k \in MoveKeys |->
        CASE k = "FORWARD" -> <<2, 1>>
          [] k = "BACK"    -> <<2, -1>>
          [] k = "RIGHT"   -> <<0, 1>>
          [] k = "LEFT"    -> <<0, -1>>
          [] k = "UP"      -> <<1, 1>>
          [] k = "DOWN"    -> <<1, -1>>]

\* the key symbols delivered to the handlers; "OTHER" is a key bound to nothing
Keys == MoveKeys \cup {"ESCAPE", "MINUS", "EQUAL", "OTHER"}

\* the key symbols whose release is delivered
ReleasedKeys == MoveKeys \cup {"ESCAPE"}

\* Python's None, told apart from every chunk (a 3-tuple)
None == <<>>

\* helpers.get_chunk: the cell of each coordinate
get_chunk(pos, size) ==
    <<AlgFloorDiv(pos[1], size), AlgFloorDiv(pos[2], size), AlgFloorDiv(pos[3], size)>>

(* ------------------------------------------------------------------ *)
(* State                                                                *)
(* ------------------------------------------------------------------ *)
VARIABLES
    speed_coef,   \* self.speed_coef
    exclusive,    \* self.exclusive
    label_y,      \* self.label.y
    rotation,     \* self.model.rotation: <<yaw, pitch>>, degrees, rationals
    motion,       \* self.model.motion: <<mx, my, mz>>
    position,     \* self.model.position: <<x, y, z>>
    chunk,        \* self.model.chunk
    last,         \* the callback that ran last, its arguments and its calls
    held,         \* per movement key: presses minus releases so far
    nMinus,       \* '-' presses so far
    nEqual,       \* '=' presses so far
    nEvents,      \* callbacks delivered so far
    nTicks,       \* ticks delivered so far
    nRenders      \* calls of model.initial_render so far

vars == <<speed_coef, exclusive, label_y, rotation, motion, position, chunk,
          last, held, nMinus, nEqual, nEvents, nTicks, nRenders>>

\* the inputs drawn by the actions
MouseDeltas == {<<300, 400>>, <<-300, -700>>, <<600, 700>>, <<0, -1>>}

DTs == {<<1, TICKS>>, <<1, 1>>}

Heights == {480, 600}

InitialHeight == CHOOSE h \in Heights : \A g \in Heights : g <= h

ZeroVector == <<SurdOfInt(0), SurdOfInt(0), SurdOfInt(0)>>

NoEvent == [op |-> "init", key |-> "", dx |-> 0, dy |-> 0, dt |-> <<0, 1>>,
            mv |-> ZeroVector, calls |-> <<>>]

Event(op) == [NoEvent EXCEPT !.op = op]

\* Window.__init__
InitWindow ==
    /\ speed_coef = 1
    /\ exclusive = FALSE
    /\ label_y = InitialHeight - 10

\* Model.__init__: the player stands at the origin, looks along -z, holds no
\* key and has no chunk yet
InitModel ==
    /\ rotation = <<RatOfInt(0), RatOfInt(0)>>
    /\ motion = <<0, 0, 0>>
    /\ position = <<AlgZero, AlgZero, AlgZero>>
    /\ chunk = None

InitHistory ==
    /\ last = NoEvent
    /\ held = [k \in MoveKeys |-> 0]
    /\ nMinus = 0
    /\ nEqual = 0
    /\ nEvents = 0
    /\ nTicks = 0
    /\ nRenders = 0

Init == InitWindow /\ InitModel /\ InitHistory

(* ------------------------------------------------------------------ *)
(* Window                                                               *)
(* ------------------------------------------------------------------ *)
\* Mouse sensitivity, 0.15
m == <<3, 20>>

\* Window.set_exclusive_mouse
set_exclusive_mouse(value) == exclusive' = value

\* ClampPitch with the lower end of the range forgotten
ClampPitchUpperOnly(yz) == min(RatOfInt(90), yz)

\* "Make sure up-down rotation is within a 180 degree range"
ClampPitch(yz) == max(RatOfInt(-90), min(RatOfInt(90), yz))

\* on_mouse_motion without the test of self.exclusive
on_mouse_motion_uncaptured(dx, dy) ==
    /\ LET xz == RatAdd(rotation[1], RatMul(RatOfInt(dx), m))
           yz == RatAdd(rotation[2], RatMul(RatOfInt(dy), m))
       IN  rotation' = <<xz, ClampPitch(yz)>>
    /\ last' = [Event("on_mouse_motion") EXCEPT !.dx = dx, !.dy = dy]
    /\ UNCHANGED <<speed_coef, exclusive, label_y, motion, position, chunk, nRenders>>

\* Window.on_mouse_motion
on_mouse_motion(dx, dy) ==
    /\ IF exclusive
       THEN LET xz == RatAdd(rotation[1], RatMul(RatOfInt(dx), m))
                yz == RatAdd(rotation[2], RatMul(RatOfInt(dy), m))
            IN  rotation' = <<xz, ClampPitch(yz)>>
       ELSE rotation' = rotation
    /\ last' = [Event("on_mouse_motion") EXCEPT !.dx = dx, !.dy = dy]
    /\ UNCHANGED <<speed_coef, exclusive, label_y, motion, position, chunk, nRenders>>

\* Window.on_mouse_press
on_mouse_press ==
    /\ IF exclusive
       THEN exclusive' = exclusive
       ELSE set_exclusive_mouse(TRUE)
    /\ last' = Event("on_mouse_press")
    /\ UNCHANGED <<speed_coef, label_y, rotation, motion, position, chunk, nRenders>>

\* self.model.motion[i] += amount (i counted from 0, as in Python)
Bump(mot, i, amount) == [mot EXCEPT ![i + 1] = @ + amount]

\* on_key_press with the speed coefficient kept at 0 or above
on_key_press_clamped(symbol) ==
    /\ IF symbol = "ESCAPE"
       THEN set_exclusive_mouse(FALSE) /\ UNCHANGED <<motion, speed_coef>>
       ELSE IF symbol \in DOMAIN MOVE
       THEN /\ motion' = Bump(motion, MOVE[symbol][1], MOVE[symbol][2])
            /\ UNCHANGED <<exclusive, speed_coef>>
       ELSE IF symbol = "MINUS"
       THEN /\ speed_coef' = (IF speed_coef - 1 < 0 THEN 0 ELSE speed_coef - 1)
            /\ UNCHANGED <<exclusive, motion>>
       ELSE IF symbol = "EQUAL"
       THEN speed_coef' = speed_coef + 1 /\ UNCHANGED <<exclusive, motion>>
       ELSE UNCHANGED <<exclusive, motion, speed_coef>>
    /\ last' = [Event("on_key_press") EXCEPT !.key = symbol]
    /\ UNCHANGED <<label_y, rotation, position, chunk, nRenders>>

\* Window.on_key_press
on_key_press(symbol) ==
    /\ IF symbol = "ESCAPE"
       THEN set_exclusive_mouse(FALSE) /\ UNCHANGED <<motion, speed_coef>>
       ELSE IF symbol \in DOMAIN MOVE
       THEN /\ motion' = Bump(motion, MOVE[symbol][1], MOVE[symbol][2])
            /\ UNCHANGED <<exclusive, speed_coef>>
       ELSE IF symbol = "MINUS"
       THEN speed_coef' = speed_coef - 1 /\ UNCHANGED <<exclusive, motion>>
       ELSE IF symbol = "EQUAL"
       THEN speed_coef' = speed_coef + 1 /\ UNCHANGED <<exclusive, motion>>
       ELSE UNCHANGED <<exclusive, motion, speed_coef>>
    /\ last' = [Event("on_key_press") EXCEPT !.key = symbol]
    /\ UNCHANGED <<label_y, rotation, position, chunk, nRenders>>

\* on_key_release that clears the key's axis instead of taking the amount back
on_key_release_clears(symbol) ==
    /\ IF symbol \in DOMAIN MOVE
       THEN motion' = [motion EXCEPT ![MOVE[symbol][1] + 1] = 0]
       ELSE motion' = motion
    /\ last' = [Event("on_key_release") EXCEPT !.key = symbol]
    /\ UNCHANGED <<speed_coef, exclusive, label_y, rotation, position, chunk, nRenders>>

\* Window.on_key_release
on_key_release(symbol) ==
    /\ IF symbol \in DOMAIN MOVE
       THEN motion' = Bump(motion, MOVE[symbol][1], -MOVE[symbol][2])
       ELSE motion' = motion
    /\ last' = [Event("on_key_release") EXCEPT !.key = symbol]
    /\ UNCHANGED <<speed_coef, exclusive, label_y, rotation, position, chunk, nRenders>>

\* Window.on_resize
on_resize(width, height) ==
    /\ label_y' = height - 10
    /\ last' = Event("on_resize")
    /\ UNCHANGED <<speed_coef, exclusive, rotation, motion, position, chunk, nRenders>>

\* get_motion_vector testing motion[:2] instead of motion[::2]
get_motion_vector_slice(mot, rot) ==
    IF mot[1] # 0 \/ mot[2] # 0
    THEN LET motionAngle == atan2(mot[3], mot[1])
             direction   == radians(rot[1])
             angle       == TurnBack(motionAngle, direction)
         IN  <<cos(angle), SurdOfInt(mot[2]), SurdNeg(sin(angle))>>
    ELSE <<SurdOfInt(0), SurdOfInt(mot[2]), SurdOfInt(0)>>

\* get_motion_vector taking z from the angle of motion before the yaw is subtracted
get_motion_vector_mixed(mot, rot) ==
    IF mot[1] # 0 \/ mot[3] # 0
    THEN LET motionAngle == atan2(mot[3], mot[1])
             direction   == radians(rot[1])
             angle       == TurnBack(motionAngle, direction)
         IN  <<cos(angle), SurdOfInt(mot[2]), SurdNeg(sin(motionAngle))>>
    ELSE <<SurdOfInt(0), SurdOfInt(mot[2]), SurdOfInt(0)>>

\* Window.get_motion_vector
get_motion_vector(mot, rot) ==
    IF mot[1] # 0 \/ mot[3] # 0
    THEN LET motionAngle == atan2(mot[3], mot[1])
             direction   == radians(rot[1])
             angle       == TurnBack(motionAngle, direction)
             x           == cos(angle)
             z           == SurdNeg(sin(angle))
         IN  <<x, SurdOfInt(mot[2]), z>>
    ELSE <<SurdOfInt(0), SurdOfInt(mot[2]), SurdOfInt(0)>>

\* the chunk step rendering on every change of chunk
ChunkStepAlwaysRenders(pos, stored) ==
    LET current_chunk == get_chunk(pos, CHUNK_SIZE)
    IN  IF current_chunk # stored
        THEN [calls |-> <<<<"update_chunk_location", stored, current_chunk>>,
                          <<"initial_render">>>>,
              chunk |-> current_chunk]
        ELSE [calls |-> <<>>, chunk |-> stored]

\* the chunk step of Window.update: the calls it makes on the model, and the
\* chunk it leaves stored
ChunkStep(pos, stored) ==
    LET current_chunk == get_chunk(pos, CHUNK_SIZE)
    IN  IF current_chunk # stored
        THEN [calls |-> <<<<"update_chunk_location", stored, current_chunk>>>>
                        \o (IF stored = None THEN <<<<"initial_render">>>> ELSE <<>>),
              chunk |-> current_chunk]
        ELSE [calls |-> <<>>, chunk |-> stored]

\* x += d * speed * self.speed_coef * dt
Advance(x, d, speed, coef, dt) ==
    AlgAdd(x, SurdScale(d, RatMul(RatOfInt(speed * coef), dt)))

\* the position step with the walking speed on every axis
DisplaceWalkingOnly(pos, mv, coef, dt) ==
    <<Advance(pos[1], mv[1], WALKING_SPEED, coef, dt),
      Advance(pos[2], mv[2], WALKING_SPEED, coef, dt),
      Advance(pos[3], mv[3], WALKING_SPEED, coef, dt)>>

\* the position step of Window.update
Displace(pos, mv, coef, dt) ==
    <<Advance(pos[1], mv[1], WALKING_SPEED, coef, dt),
      Advance(pos[2], mv[2], FLYING_SPEED, coef, dt),
      Advance(pos[3], mv[3], WALKING_SPEED, coef, dt)>>

Renders(calls) == Cardinality({i \in DOMAIN calls : calls[i][1] = "initial_render"})

\* update clearing the intent once it has been applied
update_consumes_intent(dt) ==
    LET step == ChunkStep(position, chunk)
        calls == <<<<"process_queue">>>> \o step.calls
        mv == get_motion_vector(motion, rotation)
    IN  /\ chunk' = step.chunk
        /\ position' = Displace(position, mv, speed_coef, dt)
        /\ motion' = <<0, 0, 0>>
        /\ nRenders' = nRenders + Renders(calls)
        /\ last' = [Event("update") EXCEPT !.dt = dt, !.mv = mv, !.calls = calls]
        /\ UNCHANGED <<speed_coef, exclusive, label_y, rotation>>

\* update with the chunk step after the position step
update_moves_first(dt) ==
    LET mv == get_motion_vector(motion, rotation)
        moved == Displace(position, mv, speed_coef, dt)
        step == ChunkStep(moved, chunk)
        calls == <<<<"process_queue">>>> \o step.calls
    IN  /\ chunk' = step.chunk
        /\ position' = moved
        /\ nRenders' = nRenders + Renders(calls)
        /\ last' = [Event("update") EXCEPT !.dt = dt, !.mv = mv, !.calls = calls]
        /\ UNCHANGED <<speed_coef, exclusive, label_y, rotation, motion>>

\* Window.update
update(dt) ==
    LET step == ChunkStep(position, chunk)
        calls == <<<<"process_queue">>>> \o step.calls
        mv == get_motion_vector(motion, rotation)
    IN  /\ chunk' = step.chunk
        /\ position' = Displace(position, mv, speed_coef, dt)
        /\ nRenders' = nRenders + Renders(calls)
        /\ last' = [Event("update") EXCEPT !.dt = dt, !.mv = mv, !.calls = calls]
        /\ UNCHANGED <<speed_coef, exclusive, label_y, rotation, motion>>

(* ------------------------------------------------------------------ *)
(* The event loop: one callback at a time                               *)
(* ------------------------------------------------------------------ *)
Deliver == nEvents < MaxEvents /\ nEvents' = nEvents + 1

NoTick == nTicks' = nTicks

MouseMotion ==
    /\ Deliver /\ NoTick
    /\ \E d \in MouseDeltas : on_mouse_motion(d[1], d[2])
    /\ UNCHANGED <<held, nMinus, nEqual>>

MousePress ==
    /\ Deliver /\ NoTick
    /\ on_mouse_press
    /\ UNCHANGED <<held, nMinus, nEqual>>

KeyPress ==
    /\ Deliver /\ NoTick
    /\ \E symbol \in Keys :
        /\ on_key_press(symbol)
        /\ held' = IF symbol \in MoveKeys THEN [held EXCEPT ![symbol] = @ + 1] ELSE held
        /\ nMinus' = IF symbol = "MINUS" THEN nMinus + 1 ELSE nMinus
        /\ nEqual' = IF symbol = "EQUAL" THEN nEqual + 1 ELSE nEqual

KeyRelease ==
    /\ Deliver /\ NoTick
    /\ \E symbol \in ReleasedKeys :
        /\ on_key_release(symbol)
        /\ held' = IF symbol \in MoveKeys THEN [held EXCEPT ![symbol] = @ - 1] ELSE held
        /\ UNCHANGED <<nMinus, nEqual>>

Resize ==
    /\ Deliver /\ NoTick
    /\ \E height \in Heights : on_resize(800, height)
    /\ UNCHANGED <<held, nMinus, nEqual>>

Tick ==
    /\ Deliver /\ nTicks' = nTicks + 1
    /\ \E dt \in DTs : update(dt)
    /\ UNCHANGED <<held, nMinus, nEqual>>

Next == MouseMotion \/ MousePress \/ KeyPress \/ KeyRelease \/ Resize \/ Tick

Spec == Init /\ [][Next]_vars

(* ------------------------------------------------------------------ *)
(* get_motion_vector on its own: every intent and every yaw that is a    *)
(* whole number of eighths of a turn, within the bounds                  *)
(* ------------------------------------------------------------------ *)
Intents == (-MaxIntent)..MaxIntent

Yaws == {RatOfInt(45 * k) : k \in (-MaxEighths)..MaxEighths}

InitMotion ==
    /\ InitWindow
    /\ rotation \in {<<yaw, RatOfInt(0)>> : yaw \in Yaws}
    /\ motion \in Intents \X Intents \X Intents
    /\ position = <<AlgZero, AlgZero, AlgZero>>
    /\ chunk = None
    /\ InitHistory

ResolveMotion ==
    /\ last.op = "init"
    /\ last' = [Event("get_motion_vector") EXCEPT !.mv = get_motion_vector(motion, rotation)]
    /\ UNCHANGED <<speed_coef, exclusive, label_y, rotation, motion, position, chunk,
                   held, nMinus, nEqual, nEvents, nTicks, nRenders>>

SpecMotion == InitMotion /\ [][ResolveMotion]_vars

\* the enclosures decide every chunk the model computes, and every yaw it
\* reaches is a whole number of eighths of a turn
ArithmeticExact ==
    /\ \A i \in 1..3 : AlgFloorDecided(position[i], CHUNK_SIZE)
    /\ IsEighths(rotation[1])

(* ------------------------------------------------------------------ *)
(* Properties                                                           *)
(* ------------------------------------------------------------------ *)
\* the state of the window and of the model's fields it reads and writes
program == <<speed_coef, exclusive, label_y, rotation, motion, position, chunk>>

InputCallbacks ==
    {"on_mouse_motion", "on_mouse_press", "on_key_press", "on_key_release", "on_resize"}

PitchInRange(rot) ==
    /\ ~RatLess(rot[2], RatOfInt(-90))
    /\ ~RatLess(RatOfInt(90), rot[2])

\* C1: after any sequence of mouse-motion events the stored pitch is within
\* [-90, 90]; the yaw is never clamped: a captured mouse motion adds exactly
\* dx * 0.15 to it.
C1_PitchClamped ==
    /\ [](PitchInRange(rotation))
    /\ [][last'.op = "on_mouse_motion" /\ exclusive
            => rotation'[1] = RatAdd(rotation[1], Rat(3 * last'.dx, 20))]_vars

\* a motion of dy = 700 (105 degrees) has run and left the pitch at 90, the yaw turned
C1_Witness ==
    /\ last.op = "on_mouse_motion"
    /\ last.dy = 700
    /\ rotation[2] = RatOfInt(90)
    /\ rotation[1] # RatOfInt(0)

RECURSIVE NetOn(_, _)
\* the sum, over the movement keys in ks bound to axis i, of amount * (presses - releases)
NetOn(i, ks) ==
    IF ks = {} THEN 0
    ELSE LET k == CHOOSE x \in ks : TRUE
         IN  (IF MOVE[k][1] = i THEN MOVE[k][2] * held[k] ELSE 0) + NetOn(i, ks \ {k})

\* C2: MotionIntent is the net of the presses not yet released: each press of a
\* movement key followed by a release of it cancels, however often it is
\* repeated and whatever other keys are pressed or released in between.
C2_PressReleaseRoundTrip ==
    \A i \in 0..2 : motion[i + 1] = NetOn(i, MoveKeys)

\* a movement key has just been released as often as pressed while another is held
C2_Witness ==
    /\ last.op = "on_key_release"
    /\ last.key \in MoveKeys
    /\ held[last.key] = 0
    /\ \E k \in MoveKeys : held[k] > 0
    /\ motion # <<0, 0, 0>>

\* C3: only the tick changes Position, and it leaves Orientation and
\* MotionIntent alone; only the input callbacks change Orientation or
\* MotionIntent, and they leave Position alone.
C3_Writers ==
    [][/\ position' # position => last'.op = "update"
       /\ last'.op = "update" => rotation' = rotation /\ motion' = motion
       /\ (rotation' # rotation \/ motion' # motion) => last'.op \in InputCallbacks
       /\ last'.op \in InputCallbacks => position' = position]_vars

\* a tick has moved a player who holds a key and has turned
C3_Witness ==
    /\ last.op = "update"
    /\ position # <<AlgZero, AlgZero, AlgZero>>
    /\ motion # <<0, 0, 0>>
    /\ rotation # <<RatOfInt(0), RatOfInt(0)>>

QuarterTurn(a, b) ==
    \/ b[1] = SurdNeg(a[3]) /\ b[3] = a[1]
    \/ b[1] = a[3] /\ b[3] = SurdNeg(a[1])

Moved(x, d, speed, coef, dt) ==
    AlgAdd(x, Surd(d.num * speed * coef * dt[1], d.den * dt[2], d.rad))

\* C6: a tick adds (mv.x * WALKING_SPEED, mv.y * FLYING_SPEED, mv.z * WALKING_SPEED)
\* * speed_coef * dt to Position, mv resolved from the intent and yaw at that
\* tick; with no intent the tick leaves Position unchanged.
C6_Displacement ==
    [][last'.op = "update"
         => LET mv == get_motion_vector(motion, rotation)
                dt == last'.dt
            IN  /\ last'.mv = mv
                /\ position'[1] = Moved(position[1], mv[1], WALKING_SPEED, speed_coef, dt)
                /\ position'[2] = Moved(position[2], mv[2], FLYING_SPEED, speed_coef, dt)
                /\ position'[3] = Moved(position[3], mv[3], WALKING_SPEED, speed_coef, dt)
                /\ motion = <<0, 0, 0>> => position' = position]_vars

\* a tick has moved the player up and sideways at twice the speed
C6_Witness ==
    /\ last.op = "update"
    /\ speed_coef = 2
    /\ motion[2] # 0
    /\ position[2] # AlgZero
    /\ position[1] # AlgZero \/ position[3] # AlgZero

CallsOf(name, calls) == {i \in DOMAIN calls : calls[i][1] = name}

\* C7: in a tick update_chunk_location(old, new) is called exactly when the
\* chunk of the Position at the start of the tick differs from the stored
\* chunk, with old the stored and new the computed chunk, after process_queue;
\* the stored chunk becomes the chunk of the Position before the displacement.
C7_ChunkNotified ==
    [][last'.op = "update"
         => LET cur   == get_chunk(position, CHUNK_SIZE)
                calls == last'.calls
                notes == CallsOf("update_chunk_location", calls)
            IN  /\ calls[1] = <<"process_queue">>
                /\ IF cur # chunk
                   THEN /\ Cardinality(notes) = 1
                        /\ \A i \in notes :
                              i > 1 /\ calls[i] = <<"update_chunk_location", chunk, cur>>
                   ELSE notes = {}
                /\ chunk' = cur]_vars

\* a tick has told the model of a move from one chunk to another, and its
\* displacement has already carried the player out of the chunk it stored
C7_Witness ==
    /\ last.op = "update"
    /\ \E i \in CallsOf("update_chunk_location", last.calls) : last.calls[i][2] # None
    /\ chunk # get_chunk(position, CHUNK_SIZE)

\* C8: initial_render is called in the first tick, when no chunk is stored yet,
\* and never again.
C8_RenderOnce ==
    /\ nRenders = (IF nTicks = 0 THEN 0 ELSE 1)
    /\ chunk = None <=> nTicks = 0

\* a later tick has changed the chunk, and there is still one render
C8_Witness ==
    /\ last.op = "update"
    /\ nTicks >= 2
    /\ CallsOf("update_chunk_location", last.calls) # {}
    /\ nRenders = 1

\* C9: the speed coefficient is 1 + ('=' presses) - ('-' presses), without a
\* clamp; only those presses change it; at 0 a tick does not move the player
\* and below 0 a tick moves the player against the motion vector.
C9_SpeedCoefficient ==
    /\ [](speed_coef = 1 + nEqual - nMinus)
    /\ [][/\ speed_coef' # speed_coef
               => last'.op = "on_key_press" /\ last'.key \in {"MINUS", "EQUAL"}
          /\ (last'.op = "on_key_press" /\ last'.key = "MINUS")
               => speed_coef' = speed_coef - 1
          /\ (last'.op = "on_key_press" /\ last'.key = "EQUAL")
               => speed_coef' = speed_coef + 1
          /\ (last'.op = "update" /\ speed_coef = 0) => position' = position
          /\ (last'.op = "update" /\ speed_coef < 0)
               => LET mv == last'.mv
                      dt == last'.dt
                      c  == -speed_coef
                  IN  position' =
                        <<Moved(position[1], SurdNeg(mv[1]), WALKING_SPEED, c, dt),
                          Moved(position[2], SurdNeg(mv[2]), FLYING_SPEED, c, dt),
                          Moved(position[3], SurdNeg(mv[3]), WALKING_SPEED, c, dt)>>]_vars

\* two '-' presses have made the coefficient -1 and a tick has moved the player
C9_Witness ==
    /\ last.op = "update"
    /\ speed_coef = -1
    /\ nMinus = 2
    /\ motion # <<0, 0, 0>>
    /\ position # <<AlgZero, AlgZero, AlgZero>>

\* C10: the mouse is not captured at first; only a mouse press while it is not
\* captured captures it, only an ESCAPE press releases it; a mouse motion
\* while it is not captured leaves the orientation alone, and a mouse press
\* while it is captured changes nothing.
C10_MouseCapture ==
    /\ [](nEvents = 0 => ~exclusive)
    /\ [][/\ (~exclusive /\ exclusive') => last'.op = "on_mouse_press"
          /\ (exclusive /\ ~exclusive')
               => last'.op = "on_key_press" /\ last'.key = "ESCAPE"
          /\ (last'.op = "on_mouse_motion" /\ ~exclusive) => rotation' = rotation
          /\ (last'.op = "on_mouse_press" /\ exclusive) => program' = program]_vars

\* the mouse was captured, the player turned, ESCAPE released the mouse, and a
\* mouse motion with a nonzero dx has then been ignored
C10_Witness ==
    /\ last.op = "on_mouse_motion"
    /\ last.dx # 0
    /\ ~exclusive
    /\ rotation = <<RatOfInt(45), RatOfInt(60)>>
====
